---- MODULE Spec2Model ----
(***************************************************************************)
(* Model of the todo GraphQL backend (src/index.js): one mongoose model,   *)
(* Todo, and five resolvers (todosList, create, delete, update, complete), *)
(* each of which issues exactly one storage call inside a try/catch that   *)
(* rewraps any storage error as an ApolloError.                            *)
(*                                                                         *)
(* The collection is a set of documents.  A document is a record           *)
(*   [_id, description, createdAt, completed, priority].                   *)
(* Resolver arguments are records whose DOMAIN holds exactly the arguments *)
(* the client supplied: an omitted argument is an absent field, which is   *)
(* what the destructuring defaults of the resolvers test for.              *)
(***************************************************************************)
EXTENDS Integers, Sequences, FiniteSets, TLC

VARIABLES
  coll,      \* the Todo collection: a set of documents
  nextId,    \* how many ObjectIds the process has generated, plus one
  last,      \* the latest resolver call: op, args, result, collection before
  pending,   \* per client, the request in flight (concurrent specification)
  hist       \* per id, what the responses so far told the clients

vars == <<coll, nextId, last, pending, hist>>

(***************************************************************************)
(* Bounds of the model.                                                    *)
(***************************************************************************)
MaxIds == 2        \* ObjectIds the process generates (sequential specification)
MaxRaceIds == 1    \* ObjectIds the process generates (concurrent specification)

ObjectIds == 1..MaxIds
\* An id string that mongoose cannot cast to an ObjectId (the schema's implicit
\* _id path is an ObjectId; the GraphQL argument is any String).
MalformedId == 0
IdArgs == ObjectIds \cup {MalformedId}

Descriptions == {"a", "b"}
SuppliedTimes == {1}
Now == 2                 \* what new Date() yields while the model runs
SuppliedPriorities == {0, 2}
UpdatePriorities == {-1, 0, 2}

(***************************************************************************)
(* Argument records.                                                       *)
(***************************************************************************)
Has(args, f) == f \in DOMAIN args

Extend(a, f, v) == [g \in DOMAIN a \cup {f} |-> IF g = f THEN v ELSE a[g]]

\* base, plus every record of base extended by field f with a value of S
Optional(base, f, S) == base \cup {Extend(a, f, v) : a \in base, v \in S}

(***************************************************************************)
(* The document store behind mongoose.  Every operation is one request to  *)
(* the store, atomic on the single document it touches.  Each returns      *)
(* [ok, value, coll] or, when it throws, [ok, message, coll].  `down` is   *)
(* the environment's choice that the call fails (connectivity loss).       *)
(***************************************************************************)
Ok(value, c) == [ok |-> TRUE, value |-> value, coll |-> c]
Raise(message, c) == [ok |-> FALSE, message |-> message, coll |-> c]

NullValue == [kind |-> "null"]
DocValue(d) == [kind |-> "doc", doc |-> d]

IsObjectId(id) == id # MalformedId

\* Query casting: a filter on _id whose value is no ObjectId is a CastError.
CastFails(filter) == Has(filter, "_id") /\ ~IsObjectId(filter._id)

Matches(doc, filter) == \A f \in DOMAIN filter : doc[f] = filter[f]

\* ObjectId of the n-th document the process constructs.
NewObjectIdStuck(n) == 1
NewObjectId(n) == n

\* 'ASC' -> 1, 'DESC' -> -1 (mongoose lower-cases the order word)
SortDirection(order) == IF order = "DESC" THEN -1 ELSE 1

\* d1 comes before d2: by the sort key in the given direction; ties, and the
\* unsorted query, in natural (insertion) order.
Before(d1, d2, options) ==
  LET k1 == IF Has(options, "sort")
            THEN SortDirection(options.sort.order) * d1[options.sort.field] ELSE 0
      k2 == IF Has(options, "sort")
            THEN SortDirection(options.sort.order) * d2[options.sort.field] ELSE 0
  IN  k1 < k2 \/ (k1 = k2 /\ d1._id < d2._id)

RECURSIVE SortDocs(_, _)
SortDocs(S, options) ==
  IF S = {} THEN <<>>
  ELSE LET first == CHOOSE d \in S : \A e \in S \ {d} : Before(d, e, options)
       IN  <<first>> \o SortDocs(S \ {first}, options)

\* The sort words mongoose accepts (in any letter case); any other is a TypeError.
InvalidSort(options) ==
  Has(options, "sort") /\ options.sort.order \notin {"ASC", "DESC"}

\* Todo.find(filter, null, options)
Find(c, filter, options, down) ==
  IF down THEN Raise("connection lost", c)
  ELSE IF InvalidSort(options) THEN Raise("Invalid sort value", c)
  ELSE Ok(SortDocs({d \in c : Matches(d, filter)}, options), c)

\* new Todo(doc).save(): insert-one
Save(c, doc, down) ==
  IF down THEN Raise("connection lost", c)
  ELSE Ok(DocValue(doc), c \cup {doc})

\* Todo.deleteOne(filter): removes at most one matching document
DeleteOne(c, filter, down) ==
  IF down THEN Raise("connection lost", c)
  ELSE IF CastFails(filter) THEN Raise("Cast to ObjectId failed", c)
  ELSE LET hit == {d \in c : Matches(d, filter)}
       IN  IF hit = {} THEN Ok([deletedCount |-> 0], c)
           ELSE Ok([deletedCount |-> 1], c \ {CHOOSE d \in hit : TRUE})

\* $set semantics: the fields the update names are overwritten, the rest kept.
ApplyUpdateReplace(doc, update) ==
  [f \in DOMAIN doc |->
     IF f \in DOMAIN update THEN update[f]
     ELSE IF f = "completed" THEN FALSE ELSE doc[f]]
ApplyUpdate(doc, update) ==
  [f \in DOMAIN doc |-> IF f \in DOMAIN update THEN update[f] ELSE doc[f]]

\* Todo.findOneAndUpdate(filter, update, { new: true }) with upsert: true
FindOneAndUpdateUpsert(c, filter, update, down) ==
  IF down THEN Raise("connection lost", c)
  ELSE IF CastFails(filter) THEN Raise("Cast to ObjectId failed", c)
  ELSE LET hit == {d \in c : Matches(d, filter)}
       IN  IF hit = {}
           THEN LET new == ApplyUpdate([_id |-> filter._id, description |-> "a",
                             createdAt |-> Now, completed |-> FALSE, priority |-> 1],
                             update)
                IN  Ok(DocValue(new), c \cup {new})
           ELSE LET old == CHOOSE d \in hit : TRUE
                    new == ApplyUpdate(old, update)
                IN  Ok(DocValue(new), (c \ {old}) \cup {new})
\* Todo.findOneAndUpdate(filter, update, { new: true }): the updated document,
\* or null when nothing matches.
FindOneAndUpdate(c, filter, update, down) ==
  IF down THEN Raise("connection lost", c)
  ELSE IF CastFails(filter) THEN Raise("Cast to ObjectId failed", c)
  ELSE LET hit == {d \in c : Matches(d, filter)}
       IN  IF hit = {} THEN Ok(NullValue, c)
           ELSE LET old == CHOOSE d \in hit : TRUE
                    new == ApplyUpdate(old, update)
                IN  Ok(DocValue(new), (c \ {old}) \cup {new})

(***************************************************************************)
(* The resolvers.  Each yields [coll, result]: the collection after the    *)
(* call and what the client receives.                                      *)
(***************************************************************************)
ApolloError(message) == [kind |-> "error", name |-> "ApolloError", message |-> message]

\* try { return await <storage call> } catch (e) { throw new ApolloError(e.message) }
TryCatchSwallow(out, value) ==
  [coll |-> out.coll, result |-> IF out.ok THEN value ELSE NullValue]
TryCatch(out, value) ==
  [coll |-> out.coll, result |-> IF out.ok THEN value ELSE ApolloError(out.message)]

\* const filter = completed !== null ? { completed: completed } : {}
ListFilterTruthy(args) ==
  IF Has(args, "completed") /\ args.completed THEN [completed |-> TRUE] ELSE <<>>
ListFilter(args) ==
  IF Has(args, "completed") THEN [completed |-> args.completed] ELSE <<>>

\* const sort = sortBy && { sort: { [sortBy]: order } }, order = 'ASC' by default
ListOptions(args) ==
  IF Has(args, "sortBy")
  THEN [sort |-> [field |-> args.sortBy,
                  order |-> IF Has(args, "order") THEN args.order ELSE "ASC"]]
  ELSE <<>>

todosList(c, args, down) ==
  LET out == Find(c, ListFilter(args), ListOptions(args), down)
  IN  TryCatch(out, [kind |-> "list", docs |-> out.value])

\* { description, createdAt = new Date(), completed = false, priority = 1 }
CreateFieldsFalsy(args) ==
  [description |-> args.description,
   createdAt   |-> IF Has(args, "createdAt") THEN args.createdAt ELSE Now,
   completed   |-> IF Has(args, "completed") THEN args.completed ELSE FALSE,
   priority    |-> IF Has(args, "priority") /\ args.priority # 0
                   THEN args.priority ELSE 1]
CreateFields(args) ==
  [description |-> args.description,
   createdAt   |-> IF Has(args, "createdAt") THEN args.createdAt ELSE Now,
   completed   |-> IF Has(args, "completed") THEN args.completed ELSE FALSE,
   priority    |-> IF Has(args, "priority") THEN args.priority ELSE 1]

\* new Todo({...}): the document, with the ObjectId mongoose gives it
NewTodo(n, fields) == Extend(fields, "_id", NewObjectId(n))

create(c, n, args, down) ==
  LET out == Save(c, NewTodo(n, CreateFields(args)), down)
  IN  TryCatch(out, out.value)

\* Boolean(success.deletedCount)
DeletedAlways(success) == TRUE
Deleted(success) == success.deletedCount # 0

delete(c, args, down) ==
  LET out == DeleteOne(c, [_id |-> args.id], down)
  IN  TryCatch(out, [kind |-> "boolean", value |-> Deleted(out.value)])

\* priority = 1 by default; const validPriority = priority > 0 ? priority : 1
validPriorityNonNegative(args) ==
  LET priority == IF Has(args, "priority") THEN args.priority ELSE 1
  IN  IF priority >= 0 THEN priority ELSE 1
validPriority(args) ==
  LET priority == IF Has(args, "priority") THEN args.priority ELSE 1
  IN  IF priority > 0 THEN priority ELSE 1

\* { description, priority: validPriority }
UpdateFieldsSupplied(args) ==
  IF Has(args, "priority")
  THEN [description |-> args.description, priority |-> validPriority(args)]
  ELSE [description |-> args.description]
UpdateFields(args) ==
  [description |-> args.description, priority |-> validPriority(args)]

update(c, args, down) ==
  LET out == FindOneAndUpdate(c, [_id |-> args.id], UpdateFields(args), down)
  IN  TryCatch(out, out.value)

\* { completed: true }
CompleteFieldsReset == [completed |-> TRUE, priority |-> 1]
CompleteFields == [completed |-> TRUE]

complete(c, args, down) ==
  LET out == FindOneAndUpdate(c, [_id |-> args.id], CompleteFields, down)
  IN  TryCatch(out, out.value)

(***************************************************************************)
(* What clients may send.                                                  *)
(***************************************************************************)
ListArgs ==
  Optional(Optional({<<>>}, "completed", BOOLEAN),
           "sortBy", {"priority"})
  \cup {[sortBy |-> "priority", order |-> o] : o \in {"DESC", "UP"}}

CreateArgs ==
  Optional(Optional(Optional([description : Descriptions],
           "createdAt", SuppliedTimes), "completed", BOOLEAN),
           "priority", SuppliedPriorities)

IdOnlyArgs == [id : IdArgs]

UpdateArgs ==
  Optional([id : IdArgs, description : Descriptions], "priority", UpdatePriorities)

(***************************************************************************)
(* Sequential specification: one resolver call per step.                   *)
(***************************************************************************)
NoHist == [completed |-> FALSE, updated |-> <<>>, delTrue |-> 0, raced |-> {}]
Idle == [stage |-> "idle"]
Clients == {"c1", "c2"}

Ids(c) == {d._id : d \in c}
DocWithId(c, id) == CHOOSE d \in c : d._id = id

Init ==
  /\ coll = {}
  /\ nextId = 1
  /\ last = [op |-> "none"]
  /\ pending = [c \in Clients |-> Idle]
  /\ hist = [i \in ObjectIds |-> NoHist]

NoCall == [op |-> "none"]

\* A resolver runs when a request arrives and no response is being written.
Call(op, args, down, out) ==
  /\ last = NoCall
  /\ coll' = out.coll
  /\ last' = [op |-> op, args |-> args, down |-> down,
              result |-> out.result, pre |-> coll]

TodosList ==
  \E args \in ListArgs, down \in BOOLEAN :
    /\ Call("todosList", args, down, todosList(coll, args, down))
    /\ UNCHANGED <<nextId, pending, hist>>

Create ==
  /\ nextId <= MaxIds
  /\ \E args \in CreateArgs, down \in BOOLEAN :
       /\ Call("create", args, down, create(coll, nextId, args, down))
       /\ nextId' = nextId + 1
       /\ UNCHANGED <<pending, hist>>

Delete ==
  \E args \in IdOnlyArgs, down \in BOOLEAN :
    LET out == delete(coll, args, down)
    IN  /\ Call("delete", args, down, out)
        /\ hist' = IF out.result.kind = "boolean" /\ out.result.value
                      /\ args.id \in DOMAIN hist
                   THEN [hist EXCEPT ![args.id].delTrue = @ + 1]
                   ELSE hist
        /\ UNCHANGED <<nextId, pending>>

Update ==
  \E args \in UpdateArgs, down \in BOOLEAN :
    /\ Call("update", args, down, update(coll, args, down))
    /\ UNCHANGED <<nextId, pending, hist>>

Complete ==
  \E args \in IdOnlyArgs, down \in BOOLEAN :
    /\ Call("complete", args, down, complete(coll, args, down))
    /\ UNCHANGED <<nextId, pending, hist>>

\* The server writes the resolver's result (or error) to the client.
Respond ==
  /\ last # NoCall
  /\ last' = NoCall
  /\ UNCHANGED <<coll, nextId, pending, hist>>

Next == TodosList \/ Create \/ Delete \/ Update \/ Complete \/ Respond

Spec == Init /\ [][Next]_vars

(***************************************************************************)
(* Concurrent specification: two clients, each with at most one request in *)
(* flight.  A request is issued (its arguments are fixed), and later its   *)
(* resolver runs: one storage call, which the store applies atomically.    *)
(* Between the two steps any other client's resolver may run.              *)
(*                                                                         *)
(* hist[i] records what the responses told the clients about id i:         *)
(*   completed  a complete(i) returned the document                        *)
(*   updated    <<description, priority>> of the latest update(i) that     *)
(*              returned the document                                      *)
(*   delTrue    how many delete(i) calls returned true                     *)
(*   raced      the operations on i that ran after a conflicting request   *)
(*              on i had run while they were in flight                     *)
(***************************************************************************)
RaceRequests ==
  {[op |-> "create", args |-> a] : a \in {[description |-> "a", priority |-> 2]}}
  \cup {[op |-> "update", args |-> a] :
          a \in [id : 1..MaxRaceIds, description : {"b"}]}
  \cup {[op |-> o, args |-> a] :
          o \in {"complete", "delete"}, a \in [id : 1..MaxRaceIds]}

Run(op, args, c, n, down) ==
  CASE op = "create"   -> create(c, n, args, down)
    [] op = "update"   -> update(c, args, down)
    [] op = "complete" -> complete(c, args, down)
    [] op = "delete"   -> delete(c, args, down)

\* Two requests on the same id whose effects the claim says never collide.
Conflict(op1, op2) ==
  \/ op1 = "delete" /\ op2 = "delete"
  \/ op1 = "update" /\ op2 = "complete"
  \/ op1 = "complete" /\ op2 = "update"

Succeeded(result) ==
  \/ result.kind = "doc"
  \/ result.kind = "boolean" /\ result.value

InFlightCreates == Cardinality({c \in Clients : pending[c].stage = "issued"
                                               /\ pending[c].op = "create"})

Issue(c) ==
  /\ pending[c] = Idle
  /\ \E r \in RaceRequests :
       /\ r.op = "create" => nextId + InFlightCreates <= MaxRaceIds
       /\ pending' = [pending EXCEPT ![c] =
                        [stage |-> "issued", op |-> r.op, args |-> r.args,
                         raced |-> FALSE]]
  /\ UNCHANGED <<coll, nextId, last, hist>>

Record(h, r, result) ==
  [completed |-> h.completed \/ (r.op = "complete" /\ result.kind = "doc"),
   updated   |-> IF r.op = "update" /\ result.kind = "doc"
                 THEN <<result.doc.description, result.doc.priority>>
                 ELSE h.updated,
   delTrue   |-> IF r.op = "delete" /\ result.kind = "boolean" /\ result.value
                 THEN h.delTrue + 1 ELSE h.delTrue,
   raced     |-> IF r.raced /\ result.kind # "error"
                 THEN h.raced \cup {r.op} ELSE h.raced]

Exec(c) ==
  /\ pending[c].stage = "issued"
  /\ \E down \in BOOLEAN :
       LET r   == pending[c]
           out == Run(r.op, r.args, coll, nextId, down)
       IN  /\ coll' = out.coll
           /\ nextId' = IF r.op = "create" THEN nextId + 1 ELSE nextId
           /\ hist' = IF r.op = "create" THEN hist
                      ELSE [hist EXCEPT ![r.args.id] = Record(@, r, out.result)]
           /\ pending' =
                [d \in Clients |->
                   IF d = c THEN Idle
                   ELSE IF /\ pending[d].stage = "issued"
                           /\ r.op # "create" /\ pending[d].op # "create"
                           /\ pending[d].args.id = r.args.id
                           /\ Conflict(r.op, pending[d].op)
                           /\ Succeeded(out.result)
                        THEN [pending[d] EXCEPT !.raced = TRUE]
                        ELSE pending[d]]
  /\ UNCHANGED last

NextRace == \E c \in Clients : Issue(c) \/ Exec(c)

SpecRace == Init /\ [][NextRace]_vars

(***************************************************************************)
(* Properties.  `last` holds the resolver call whose response is being     *)
(* written: its arguments, whether the store failed, its result, and the   *)
(* collection before it ran.                                               *)
(***************************************************************************)
Returned == last # NoCall /\ last.result.kind # "error"
Range(seq) == {seq[k] : k \in 1..Len(seq)}

\* What update stores as priority: the supplied value when positive, else 1.
Coerced(args) ==
  IF Has(args, "priority") /\ args.priority > 0 THEN args.priority ELSE 1

\* C1: delete(id) returns true exactly when a record with that id existed
\* before the call; then exactly that record is removed, and it is in no later
\* list() result; when it returns false the collection is unchanged.
C1_DeleteContract ==
  /\ (last.op = "delete" /\ Returned) =>
       LET id      == last.args.id
           existed == id \in Ids(last.pre)
       IN  /\ last.result.kind = "boolean"
           /\ last.result.value <=> existed
           /\ last.result.value =>
                /\ coll = last.pre \ {DocWithId(last.pre, id)}
                /\ Cardinality(coll) = Cardinality(last.pre) - 1
           /\ ~last.result.value => coll = last.pre
  /\ \A i \in ObjectIds :
       hist[i].delTrue > 0 =>
         /\ i \notin Ids(coll)
         /\ (last.op = "todosList" /\ Returned) =>
              \A k \in 1..Len(last.result.docs) : last.result.docs[k]._id # i

\* a list() that returns the remaining record after a delete has returned true
C1_Witness ==
  /\ last.op = "todosList" /\ Returned
  /\ Len(last.result.docs) = 1
  /\ \E i \in ObjectIds : hist[i].delTrue = 1

\* C2 as stated: update and complete with an id that matches no record return
\* null, not an API error (the store being reachable), and change nothing.
C2_NullOnAnyUnmatchedId ==
  (/\ last.op \in {"update", "complete"}
   /\ last.args.id \notin Ids(last.pre)
   /\ ~last.down)
  => /\ last.result = NullValue
     /\ coll = last.pre

\* C2, amended: update and complete with an id that matches no record leave the
\* collection unchanged; they return null when the id is a well-formed store
\* identifier and the storage call succeeds, and raise the API error when the
\* id cannot be cast to a store identifier.
C2_NullOnUnmatchedObjectId ==
  (/\ last.op \in {"update", "complete"}
   /\ last.args.id \notin Ids(last.pre))
  => /\ coll = last.pre
     /\ (~last.down /\ IsObjectId(last.args.id)) => last.result = NullValue
     /\ (~last.down /\ ~IsObjectId(last.args.id)) =>
          last.result = ApolloError("Cast to ObjectId failed")

\* update on the id of a deleted record, while another record exists
C2_Witness ==
  /\ last.op = "update" /\ ~last.down
  /\ IsObjectId(last.args.id)
  /\ last.args.id \notin Ids(last.pre)
  /\ hist[last.args.id].delTrue = 1
  /\ last.pre # {}
  /\ last.result = NullValue

\* C3: after an update the stored priority is the supplied value when that is
\* positive and 1 when it is zero or negative, and a priority >= 1 stays >= 1
\* through every further update and complete while the record exists.
C3_PriorityAtLeastOne ==
  /\ (last.op = "update" /\ last.result.kind = "doc") =>
       LET stored == DocWithId(coll, last.args.id)
       IN  /\ last.args.id \in Ids(coll)
           /\ stored.priority >= 1
           /\ stored.priority = last.result.doc.priority
           /\ Has(last.args, "priority") =>
                stored.priority = IF last.args.priority > 0
                                  THEN last.args.priority ELSE 1
  /\ last.op \in {"update", "complete"} =>
       \A d \in last.pre, e \in coll :
         (d._id = e._id /\ d.priority >= 1) => e.priority >= 1

\* update with a non-positive priority on a record whose priority was below 1
C3_Witness ==
  /\ last.op = "update" /\ last.result.kind = "doc"
  /\ Has(last.args, "priority") /\ last.args.priority <= 0
  /\ DocWithId(last.pre, last.args.id).priority < 1
  /\ DocWithId(coll, last.args.id).priority = 1

\* C4: create returns the record it persisted; completed is false and priority
\* is 1 when omitted; every supplied argument is stored as given; the
\* collection afterwards is the previous one plus exactly that record.
C4_CreateContract ==
  (last.op = "create" /\ Returned) =>
    LET d == last.result.doc
        a == last.args
    IN  /\ last.result.kind = "doc"
        /\ d \notin last.pre
        /\ coll = last.pre \cup {d}
        /\ Cardinality(coll) = Cardinality(last.pre) + 1
        /\ d.description = a.description
        /\ d.completed = (IF Has(a, "completed") THEN a.completed ELSE FALSE)
        /\ d.priority = (IF Has(a, "priority") THEN a.priority ELSE 1)
        /\ Has(a, "createdAt") => d.createdAt = a.createdAt

\* a second record created with priority 0 supplied and completed omitted
C4_Witness ==
  /\ last.op = "create" /\ Returned
  /\ last.pre # {}
  /\ Has(last.args, "priority") /\ last.args.priority = 0
  /\ ~Has(last.args, "completed")
  /\ Has(last.args, "createdAt")

\* C5: no two records share an id; the id create returns is the id of no
\* record existing at that moment; update and complete change no record's id;
\* list returns the records under the ids they were created with.
C5_UniqueStableIds ==
  /\ \A d1, d2 \in coll : d1._id = d2._id => d1 = d2
  /\ (last.op = "create" /\ Returned) =>
       /\ last.result.doc._id \notin Ids(last.pre)
       /\ Ids(coll) = Ids(last.pre) \cup {last.result.doc._id}
  /\ last.op \in {"update", "complete"} =>
       /\ Ids(coll) = Ids(last.pre)
       /\ Cardinality(coll) = Cardinality(last.pre)
       /\ last.result.kind = "doc" => last.result.doc._id = last.args.id
  /\ (last.op = "todosList" /\ Returned) =>
       /\ Range(last.result.docs) \subseteq coll
       /\ \A j, k \in 1..Len(last.result.docs) :
            last.result.docs[j]._id = last.result.docs[k]._id => j = k

\* a list() of two records, after one of them has been updated
C5_Witness ==
  /\ last.op = "todosList" /\ Returned
  /\ Len(last.result.docs) = 2
  /\ \E k \in 1..2 : last.result.docs[k].description = "b"
                     /\ last.result.docs[k].priority = 2
                     /\ last.result.docs[k].createdAt = Now

\* C6: complete(id) on an existing record returns it with completed = true,
\* leaves its other fields and every other record untouched, and applied to an
\* already completed record changes nothing and returns that same record.
C6_CompleteFrame ==
  (last.op = "complete" /\ last.args.id \in Ids(last.pre) /\ ~last.down) =>
    LET old == DocWithId(last.pre, last.args.id)
        new == [old EXCEPT !.completed = TRUE]
    IN  /\ last.result = DocValue(new)
        /\ coll = (last.pre \ {old}) \cup {new}
        /\ old.completed => (coll = last.pre /\ last.result = DocValue(old))

\* complete on an already completed record, another record being present
C6_Witness ==
  /\ last.op = "complete" /\ last.result.kind = "doc"
  /\ DocWithId(last.pre, last.args.id).completed
  /\ DocWithId(last.pre, last.args.id).priority # 1
  /\ Cardinality(last.pre) = 2

\* C7: list(completed = true) returns exactly the completed records,
\* list(completed = false) exactly the others, list without the flag every
\* record; list never modifies the collection.
C7_ListFilter ==
  last.op = "todosList" =>
    /\ coll = last.pre
    /\ Returned =>
         LET docs == last.result.docs
             want == IF Has(last.args, "completed")
                     THEN {d \in last.pre : d.completed = last.args.completed}
                     ELSE last.pre
         IN  /\ last.result.kind = "list"
             /\ Range(docs) = want
             /\ Len(docs) = Cardinality(want)

\* list(completed = false) over one completed and one uncompleted record
C7_Witness ==
  /\ last.op = "todosList" /\ Returned
  /\ Has(last.args, "completed") /\ ~last.args.completed
  /\ Len(last.result.docs) = 1
  /\ \E d \in last.pre : d.completed

\* C8: when the storage call of any resolver fails, the client receives the
\* one API error kind, carrying the storage error's message, and the
\* collection is as it was before the call; no other error reaches the client.
C8_StorageFailure ==
  last # NoCall =>
    /\ last.down =>
         /\ last.result = ApolloError("connection lost")
         /\ coll = last.pre
    /\ last.result.kind = "error" =>
         /\ last.result.name = "ApolloError"
         /\ last.result.message \in {"connection lost", "Cast to ObjectId failed",
                                     "Invalid sort value"}
         /\ last.result.message = "Invalid sort value" =>
              (last.op = "todosList" /\ last.args.order = "UP")
         /\ last.result.message = "Cast to ObjectId failed" =>
              (last.op \in {"delete", "update", "complete"}
               /\ ~IsObjectId(last.args.id))
         /\ coll = last.pre

\* the store fails on an update of an existing record
C8_Witness ==
  /\ last.op = "update" /\ last.down
  /\ last.args.id \in Ids(last.pre)
  /\ last.result.kind = "error"

\* C10: update on an existing record overwrites its description and priority
\* only; id, createdAt, completed and every other record are unchanged; with
\* priority omitted the stored priority becomes 1 whatever it was.
C10_UpdateFrame ==
  (last.op = "update" /\ last.args.id \in Ids(last.pre) /\ ~last.down) =>
    LET old == DocWithId(last.pre, last.args.id)
        new == [old EXCEPT !.description = last.args.description,
                           !.priority = Coerced(last.args)]
    IN  /\ last.result = DocValue(new)
        /\ coll = (last.pre \ {old}) \cup {new}
        /\ ~Has(last.args, "priority") => new.priority = 1

\* update without priority on a completed record of priority 2, another
\* record being present
C10_Witness ==
  /\ last.op = "update" /\ last.result.kind = "doc"
  /\ ~Has(last.args, "priority")
  /\ DocWithId(last.pre, last.args.id).priority = 2
  /\ DocWithId(last.pre, last.args.id).completed
  /\ DocWithId(last.pre, last.args.id).description # last.args.description
  /\ Cardinality(last.pre) = 2

\* C9: whatever the interleaving of the clients' requests, at most one
\* delete(id) returns true and the record stays deleted, and a record keeps
\* every change an update or a complete has reported: completed stays true
\* once a complete returned it, and description and priority are those of the
\* latest update that returned it.
C9_NoLostEffects ==
  /\ \A i \in ObjectIds :
       /\ hist[i].delTrue <= 1
       /\ hist[i].delTrue = 1 => i \notin Ids(coll)
  /\ \A d \in coll :
       /\ hist[d._id].completed => d.completed
       /\ hist[d._id].updated # <<>> =>
            /\ d.description = hist[d._id].updated[1]
            /\ d.priority = hist[d._id].updated[2]

\* on one record: an update and a complete overlapped and both returned it,
\* then two deletes overlapped and exactly one returned true
C9_Witness ==
  \E i \in ObjectIds :
    /\ hist[i].raced = {"update", "delete"}
    /\ hist[i].completed
    /\ hist[i].updated # <<>>
    /\ hist[i].delTrue = 1

====
